---- MODULE Spec2Model ----
(***************************************************************************)
(* Rule engines of fraudscan/src/rules: RegraMotorTEA (elegibilidade,      *)
(* cobertura, limites) and RegraMotorFrequencia (frequencia_maxima,        *)
(* intervalo_minimo, repeticao_proibida, mesmo_dia).                       *)
(*                                                                         *)
(* Python values are modelled as follows.                                  *)
(*   dict        a function whose DOMAIN is the set of keys present        *)
(*   str (data)  a tuple of one-character strings, so that parsing and     *)
(*               prefix tests are computed character by character          *)
(*   date        <<year, month, day>>                                      *)
(*   exception   a record with the field "raise"                           *)
(*                                                                         *)
(* Spec             one caller: construction, validar, release             *)
(* SpecShared       several callers on one engine, validar taken rule by   *)
(*                  rule, the steps of the calls interleaved               *)
(* SpecPeriodKey    _period_key on pairs of dates                          *)
(* SpecCountPeriod  _count_in_period along appends to a history            *)
(* SpecHistory      validar after each append to the history of a request  *)
(***************************************************************************)
EXTENDS Integers, Sequences, FiniteSets, TLC

\* engine, pc, ctx, outcome: one caller and its engine.  calls, built: the
\* callers that share one engine and the engine as constructed.  probe: the
\* arguments and results of a helper applied on its own.
VARIABLES engine, pc, ctx, outcome, calls, built, probe

vars == <<engine, pc, ctx, outcome, calls, built, probe>>

\* ------------------------------------------------------------------ bounds
MaxHist == 2
MaxQtd == 2
MaxLimite == 2
MaxDias == 1
MaxAnos == 6
MaxCallers == 2

\* ------------------------------------------------------- Python primitives
None == "None"

Has(d, k) == k \in DOMAIN d

IsExc(v) == "raise" \in DOMAIN v

KeyError(k) == [raise |-> "KeyError", arg |-> k]

\* m is the tuple of the parts of the message.
ValueError(m) == [raise |-> "ValueError", arg |-> m]

\* d.get(k, default)
Get(d, k, default) == IF Has(d, k) THEN d[k] ELSE default

\* --------------------------------------------------------- calendar (date)
IsLeap(y) == (y % 4 = 0) /\ ((y % 100 # 0) \/ (y % 400 = 0))

DaysInMonth(y, m) ==
    IF m = 2 THEN (IF IsLeap(y) THEN 29 ELSE 28)
    ELSE IF m \in {4, 6, 9, 11} THEN 30 ELSE 31

RECURSIVE DaysBeforeMonth(_, _)
DaysBeforeMonth(y, m) ==
    IF m <= 1 THEN 0 ELSE DaysBeforeMonth(y, m - 1) + DaysInMonth(y, m - 1)

DaysBeforeYear(y) ==
    (y - 1) * 365 + ((y - 1) \div 4) - ((y - 1) \div 100) + ((y - 1) \div 400)

\* date.toordinal(): 0001-01-01 is day 1 (a Monday).
ToOrdinal(dt) == DaysBeforeYear(dt[1]) + DaysBeforeMonth(dt[1], dt[2]) + dt[3]

\* (a - b).days
DaysBetween(a, b) == ToOrdinal(a) - ToOrdinal(b)

\* a <= b on dates
DateLE(a, b) == ToOrdinal(a) <= ToOrdinal(b)

\* Ordinal of the Monday that starts ISO week 1 of year y: the week that
\* holds the year's first Thursday.
IsoWeek1Monday(y) ==
    LET firstday == DaysBeforeYear(y) + 1
        firstweekday == (firstday + 6) % 7
        monday == firstday - firstweekday
    IN  IF firstweekday > 3 THEN monday + 7 ELSE monday

\* Variant of _week_year_key: the calendar year beside the ISO week.
_week_year_keyAnoCivil(dt) ==
    LET y == dt[1]
        today == ToOrdinal(dt)
        w == today - IsoWeek1Monday(y)
    IN  IF w < 0
        THEN <<y, ((today - IsoWeek1Monday(y - 1)) \div 7) + 1>>
        ELSE IF (w \div 7) >= 52 /\ today >= IsoWeek1Monday(y + 1)
        THEN <<y, 1>>
        ELSE <<y, (w \div 7) + 1>>

\* dt.isocalendar()[:2]
_week_year_key(dt) ==
    LET y == dt[1]
        today == ToOrdinal(dt)
        w == today - IsoWeek1Monday(y)
    IN  IF w < 0
        THEN <<y - 1, ((today - IsoWeek1Monday(y - 1)) \div 7) + 1>>
        ELSE IF (w \div 7) >= 52 /\ today >= IsoWeek1Monday(y + 1)
        THEN <<y + 1, 1>>
        ELSE <<y, (w \div 7) + 1>>

_month_year_key(dt) == <<dt[1], dt[2]>>

_year_key(dt) == dt[1]

\* ------------------------------------------------------------ str <-> date
DigitChars == <<"0", "1", "2", "3", "4", "5", "6", "7", "8", "9">>

IsDigit(c) == \E i \in 1..10 : DigitChars[i] = c

DigitVal(c) == (CHOOSE i \in 1..10 : DigitChars[i] = c) - 1

AllDigits(s) == \A i \in 1..Len(s) : IsDigit(s[i])

RECURSIVE Num(_)
Num(s) ==
    IF s = <<>> THEN 0
    ELSE Num(SubSeq(s, 1, Len(s) - 1)) * 10 + DigitVal(s[Len(s)])

\* s.split(sep) on a tuple of characters
RECURSIVE SplitOn(_, _)
SplitOn(s, sep) ==
    IF s = <<>> THEN << <<>> >>
    ELSE LET rest == SplitOn(Tail(s), sep)
         IN  IF Head(s) = sep
             THEN << <<>> >> \o rest
             ELSE << <<Head(s)>> \o Head(rest) >> \o Tail(rest)

\* date(y, m, d): the day must exist, otherwise ValueError.
MakeDate(y, m, d) ==
    IF y >= 1 /\ m \in 1..12 /\ d \in 1..DaysInMonth(y, m)
    THEN [value |-> <<y, m, d>>]
    ELSE ValueError(<<"day is out of range for month">>)

\* The match of "%Y-%m-%d" on the fields between the dashes: four digits
\* of year, one or two digits of month and of day, nothing else.
StrptimeFields(f) ==
    IF /\ Len(f) = 3
       /\ Len(f[1]) = 4 /\ AllDigits(f[1])
       /\ Len(f[2]) \in 1..2 /\ AllDigits(f[2])
       /\ Len(f[3]) \in 1..2 /\ AllDigits(f[3])
    THEN MakeDate(Num(f[1]), Num(f[2]), Num(f[3]))
    ELSE ValueError(<<"time data does not match format">>)

\* datetime.strptime(s, "%Y-%m-%d").date()
Strptime(s) == StrptimeFields(SplitOn(s, "-"))

\* d is a DateLike: [date |-> <<y, m, d>>], [datetime |-> <<y, m, d, H>>]
\* or [str |-> characters].
_parse_date(d) ==
    IF Has(d, "date") THEN [value |-> d.date]
    ELSE IF Has(d, "datetime") THEN [value |-> SubSeq(d.datetime, 1, 3)]
    ELSE Strptime(d.str)

Pad(n, width) ==
    [i \in 1..width |-> DigitChars[((n \div (10 ^ (width - i))) % 10) + 1]]

\* date.isoformat()
IsoFormat(dt) == Pad(dt[1], 4) \o <<"-">> \o Pad(dt[2], 2) \o <<"-">> \o Pad(dt[3], 2)

\* str.lower() on the period names that occur in configurations
LowerTable ==
    [s \in {"Mensal", "SEMANAL"} |-> IF s = "Mensal" THEN "mensal" ELSE "semanal"]

Lower(s) == IF s \in DOMAIN LowerTable THEN LowerTable[s] ELSE s

\* ================================================== RegraMotorFrequencia
PERIODOS_SUPORTADOS == {"diario", "semanal", "mensal", "anual"}

\* A configured quantity: [int |-> n], [float |-> n] (the float n.0) or
\* [none |-> TRUE].
IsInt(q) == Has(q, "int")

\* Variant of CheckFreqEntry: the sign of the quantity is not checked.
CheckFreqEntryAnySign(tipo, regra) ==
    LET periodo == Lower(Get(regra, "periodo", ""))
        qtd == Get(regra, "quantidade", [none |-> TRUE])
    IN  IF periodo \notin PERIODOS_SUPORTADOS
        THEN [raise |-> "ValueError", arg |-> <<"Periodo invalido", tipo, periodo>>]
        ELSE IF ~IsInt(qtd)
        THEN [raise |-> "ValueError", arg |-> <<"Quantidade invalida", tipo, qtd>>]
        ELSE [ok |-> TRUE]

\* First failure of the validation loop over frequencia_maxima, in the
\* order of the entries; [ok |-> TRUE] when every entry passes.
CheckFreqEntry(tipo, regra) ==
    LET periodo == Lower(Get(regra, "periodo", ""))
        qtd == Get(regra, "quantidade", [none |-> TRUE])
    IN  IF periodo \notin PERIODOS_SUPORTADOS
        THEN [raise |-> "ValueError", arg |-> <<"Periodo invalido", tipo, periodo>>]
        ELSE IF ~IsInt(qtd) \/ qtd.int < 0
        THEN [raise |-> "ValueError", arg |-> <<"Quantidade invalida", tipo, qtd>>]
        ELSE [ok |-> TRUE]

\* Iteration order of a dict keyed by therapy type.
KeysInOrder(d) ==
    (IF Has(d, "ABA") THEN <<"ABA">> ELSE <<>>) \o (IF Has(d, "Fono") THEN <<"Fono">> ELSE <<>>)

\* The loop over self._freq_max.items(); order holds the keys still to visit.
RECURSIVE CheckFreqMax(_, _)
CheckFreqMax(freq_max, order) ==
    IF order = <<>> THEN [ok |-> TRUE]
    ELSE IF IsExc(CheckFreqEntry(Head(order), freq_max[Head(order)]))
    THEN CheckFreqEntry(Head(order), freq_max[Head(order)])
    ELSE CheckFreqMax(freq_max, Tail(order))

EmptyDict == [k \in {} |-> None]

\* The instance __init__ leaves when the validation r raised nothing.
FrequenciaInstance(config, r) ==
    IF IsExc(r) THEN r
    ELSE [kind |-> "Frequencia",
          config |-> config,
          _freq_max |-> Get(config, "frequencia_maxima", EmptyDict),
          _int_min |-> Get(config, "intervalo_minimo_dias", EmptyDict),
          _rep_proib |-> Get(config, "periodo_repeticao_proibida", EmptyDict),
          _no_same_day |-> Get(config, "nao_permitir_mesmo_dia", {})]

\* RegraMotorFrequencia(config): the engine, or the exception raised.
FrequenciaInit(config) ==
    FrequenciaInstance(config,
        CheckFreqMax(Get(config, "frequencia_maxima", EmptyDict),
                     KeysInOrder(Get(config, "frequencia_maxima", EmptyDict))))

\* Variant of _period_key: the branch of "anual" is missing.
_period_keySemAnual(dt, periodo0) ==
    LET periodo == Lower(periodo0)
    IN  IF periodo = "diario" THEN [value |-> <<dt[1], dt[2], dt[3]>>]
        ELSE IF periodo = "semanal" THEN [value |-> _week_year_key(dt)]
        ELSE IF periodo = "mensal" THEN [value |-> _month_year_key(dt)]
        ELSE ValueError(<<"Periodo nao suportado", periodo>>)

_period_key(dt, periodo0) ==
    LET periodo == Lower(periodo0)
    IN  IF periodo = "diario" THEN [value |-> <<dt[1], dt[2], dt[3]>>]
        ELSE IF periodo = "semanal" THEN [value |-> _week_year_key(dt)]
        ELSE IF periodo = "mensal" THEN [value |-> _month_year_key(dt)]
        ELSE IF periodo = "anual" THEN [value |-> <<_year_key(dt)>>]
        ELSE ValueError(<<"Periodo nao suportado", periodo>>)

\* sess.get("tipo") == tipo
SameTipo(sess, tipo) == Has(sess, "tipo") /\ sess.tipo = tipo

\* self._parse_date(sess["data"])
SessDate(sess) ==
    IF ~Has(sess, "data") THEN KeyError("data") ELSE _parse_date(sess.data)

\* Variant of CountStep: a session outside the bucket restarts the count.
CountStepReset(count, d, periodo, key_ref) ==
    IF IsExc(d) THEN d
    ELSE IF _period_key(d.value, periodo).value = key_ref
    THEN [value |-> count.value + 1]
    ELSE [value |-> 0]

\* One iteration of the loop of _count_in_period: count is the result of
\* the iterations before, d the parsed date of a session of the type.
CountStep(count, d, periodo, key_ref) ==
    IF IsExc(d) THEN d
    ELSE IF _period_key(d.value, periodo).value = key_ref
    THEN [value |-> count.value + 1]
    ELSE count

RECURSIVE CountLoop(_, _, _, _)
CountLoop(historico, tipo, periodo, key_ref) ==
    IF historico = <<>> THEN [value |-> 0]
    ELSE LET n == Len(historico)
             before == CountLoop(SubSeq(historico, 1, n - 1), tipo, periodo, key_ref)
         IN  IF IsExc(before) \/ ~SameTipo(historico[n], tipo) THEN before
             ELSE CountStep(before, SessDate(historico[n]), periodo, key_ref)

CountFrom(historico, tipo, periodo, key_ref) ==
    IF IsExc(key_ref) THEN key_ref
    ELSE CountLoop(historico, tipo, periodo, key_ref.value)

_count_in_period(historico, tipo, periodo, data_ref) ==
    CountFrom(historico, tipo, periodo, _period_key(data_ref, periodo))

\* Variant of DatasStep: the date is kept whether or not it is past ate_data.
DatasStepSemFiltro(datas, d, ate_data) ==
    IF IsExc(d) THEN d ELSE [value |-> Append(datas.value, d.value)]

\* One element of the list comprehension of _last_session_date.
DatasStep(datas, d, ate_data) ==
    IF IsExc(d) THEN d
    ELSE IF DateLE(d.value, ate_data)
    THEN [value |-> Append(datas.value, d.value)]
    ELSE datas

\* The list comprehension of _last_session_date: the dates kept, in order.
RECURSIVE DatasAte(_, _, _)
DatasAte(historico, tipo, ate_data) ==
    IF historico = <<>> THEN [value |-> <<>>]
    ELSE LET n == Len(historico)
             before == DatasAte(SubSeq(historico, 1, n - 1), tipo, ate_data)
         IN  IF IsExc(before) \/ ~SameTipo(historico[n], tipo) THEN before
             ELSE DatasStep(before, SessDate(historico[n]), ate_data)

\* Variant of MaxDate: min(datas).
MinDate(datas) ==
    datas[CHOOSE i \in 1..Len(datas) :
              \A j \in 1..Len(datas) : DateLE(datas[i], datas[j])]

\* max(datas)
MaxDate(datas) ==
    datas[CHOOSE i \in 1..Len(datas) :
              \A j \in 1..Len(datas) : DateLE(datas[j], datas[i])]

\* max(datas) if datas else None; [found |-> FALSE] stands for None.
MaxOrNone(datas) ==
    IF IsExc(datas) THEN datas
    ELSE IF datas.value = <<>> THEN [found |-> FALSE]
    ELSE [found |-> TRUE, value |-> MaxDate(datas.value)]

_last_session_date(historico, tipo, ate_data) ==
    MaxOrNone(DatasAte(historico, tipo, ate_data))

\* Variant of SameDayStep: every session of the type counts, whatever its date.
SameDayStepAnyDate(count, d, data_ref) ==
    IF IsExc(d) THEN d ELSE [value |-> count.value + 1]

\* One term of the sum of _same_day_count.
SameDayStep(count, d, data_ref) ==
    IF IsExc(d) THEN d
    ELSE IF d.value = data_ref THEN [value |-> count.value + 1]
    ELSE count

RECURSIVE _same_day_count(_, _, _)
_same_day_count(historico, tipo, data_ref) ==
    IF historico = <<>> THEN [value |-> 0]
    ELSE LET n == Len(historico)
             before == _same_day_count(SubSeq(historico, 1, n - 1), tipo, data_ref)
         IN  IF IsExc(before) \/ ~SameTipo(historico[n], tipo) THEN before
             ELSE SameDayStep(before, SessDate(historico[n]), data_ref)

\* Variant of ReadFields: proc["quantidade"] in place of proc.get("quantidade", 1).
ReadFieldsStrict(c, d) ==
    IF IsExc(d) THEN d
    ELSE IF ~Has(c.procedimento, "quantidade") THEN KeyError("quantidade")
    ELSE [tipo |-> c.procedimento.tipo,
          qtd_solic |-> c.procedimento.quantidade,
          data_sol |-> d.value,
          hist |-> Get(c, "historico_sessoes", <<>>)]

\* The reads every rule starts with: ctx["procedimento"], proc["tipo"],
\* int(proc.get("quantidade", 1)), the parsed proc["data_solicitacao"] and
\* ctx.get("historico_sessoes", []).  The exception of the first failing
\* read, or the values read.
ReadFields(c, d) ==
    IF IsExc(d) THEN d
    ELSE [tipo |-> c.procedimento.tipo,
          qtd_solic |-> Get(c.procedimento, "quantidade", 1),
          data_sol |-> d.value,
          hist |-> Get(c, "historico_sessoes", <<>>)]

ReadCtx(c) ==
    IF ~Has(c, "procedimento") THEN KeyError("procedimento")
    ELSE IF ~Has(c.procedimento, "tipo") THEN KeyError("tipo")
    ELSE IF ~Has(c.procedimento, "data_solicitacao") THEN KeyError("data_solicitacao")
    ELSE ReadFields(c, _parse_date(c.procedimento.data_solicitacao))

\* Variant of FrequenciaMaximaResult: < in place of <=.
FrequenciaMaximaResultStrict(periodo, limite, qtd_solic, atual) ==
    IF IsExc(atual) THEN atual
    ELSE [conforme |-> atual.value + qtd_solic < limite,
          mensagem |-> <<"Frequencia", atual.value + qtd_solic, limite, periodo>>,
          evidencias |-> [periodo |-> periodo,
                          consumido_no_periodo |-> atual.value,
                          solicitado |-> qtd_solic,
                          total_pos_execucao |-> atual.value + qtd_solic,
                          limite |-> limite]]

\* The verdict of _rule_frequencia_maxima from atual, the count in the period.
FrequenciaMaximaResult(periodo, limite, qtd_solic, atual) ==
    IF IsExc(atual) THEN atual
    ELSE LET total_pos_exec == atual.value + qtd_solic
             conforme == total_pos_exec <= limite
         IN  [conforme |-> conforme,
              mensagem |-> <<IF conforme THEN "Frequencia OK" ELSE "Excede frequencia",
                             total_pos_exec, limite, periodo>>,
              evidencias |-> [periodo |-> periodo,
                              consumido_no_periodo |-> atual.value,
                              solicitado |-> qtd_solic,
                              total_pos_execucao |-> total_pos_exec,
                              limite |-> limite]]

\* _rule_frequencia_maxima once the context is read into r.
FrequenciaMaximaOf(self, r) ==
    IF IsExc(r) THEN r
    ELSE IF ~Has(self._freq_max, r.tipo)
    THEN [conforme |-> TRUE,
          mensagem |-> <<"Sem regra de frequencia configurada", r.tipo>>,
          evidencias |-> [atual_no_periodo |-> 0, limite |-> None]]
    ELSE FrequenciaMaximaResult(
             Lower(self._freq_max[r.tipo].periodo),
             self._freq_max[r.tipo].quantidade.int,
             r.qtd_solic,
             _count_in_period(r.hist, r.tipo, Lower(self._freq_max[r.tipo].periodo),
                              r.data_sol))

_rule_frequencia_maxima(self, c) == FrequenciaMaximaOf(self, ReadCtx(c))

\* Variant of IntervaloMinimoResult: the verdict ignores the quantity.
IntervaloMinimoResultSemQtd(min_days, qtd_solic, data_sol, last_dt) ==
    IF IsExc(last_dt) THEN last_dt
    ELSE IF ~last_dt.found
    THEN [conforme |-> TRUE,
          mensagem |-> <<"Nao ha sessoes anteriores">>,
          evidencias |-> [intervalo_minimo_dias |-> min_days, dias_desde_ultima |-> None]]
    ELSE [conforme |-> DaysBetween(data_sol, last_dt.value) >= min_days,
          mensagem |-> <<"Intervalo", DaysBetween(data_sol, last_dt.value), min_days>>,
          evidencias |-> [ultima_sessao_em |-> IsoFormat(last_dt.value),
                          dias_desde_ultima |-> DaysBetween(data_sol, last_dt.value),
                          intervalo_minimo_dias |-> min_days,
                          quantidade_solicitada_mesmo_dia |-> qtd_solic]]

\* The verdict of _rule_intervalo_minimo from last_dt, the last session.
IntervaloMinimoResult(min_days, qtd_solic, data_sol, last_dt) ==
    IF IsExc(last_dt) THEN last_dt
    ELSE IF ~last_dt.found
    THEN [conforme |-> TRUE,
          mensagem |-> <<"Nao ha sessoes anteriores">>,
          evidencias |-> [intervalo_minimo_dias |-> min_days, dias_desde_ultima |-> None]]
    ELSE LET dias == DaysBetween(data_sol, last_dt.value)
             conforme == dias >= min_days /\ (qtd_solic = 1 \/ min_days = 0)
         IN  [conforme |-> conforme,
              mensagem |-> <<IF conforme THEN "Intervalo atendido"
                                         ELSE "Intervalo nao atendido", dias, min_days>>,
              evidencias |-> [ultima_sessao_em |-> IsoFormat(last_dt.value),
                              dias_desde_ultima |-> dias,
                              intervalo_minimo_dias |-> min_days,
                              quantidade_solicitada_mesmo_dia |-> qtd_solic]]

\* _rule_intervalo_minimo once the context is read into r.
IntervaloMinimoOf(self, r) ==
    IF IsExc(r) THEN r
    ELSE IF Get(self._int_min, r.tipo, 0) <= 0
    THEN [conforme |-> TRUE,
          mensagem |-> <<"Sem intervalo minimo configurado", r.tipo>>,
          evidencias |-> [intervalo_minimo_dias |-> 0]]
    ELSE IntervaloMinimoResult(Get(self._int_min, r.tipo, 0), r.qtd_solic, r.data_sol,
                               _last_session_date(r.hist, r.tipo, r.data_sol))

_rule_intervalo_minimo(self, c) == IntervaloMinimoOf(self, ReadCtx(c))

\* Variant of RepeticaoProibidaResult: > in place of >=.
RepeticaoProibidaResultStrict(dias_proib, data_sol, last_dt) ==
    IF IsExc(last_dt) THEN last_dt
    ELSE IF ~last_dt.found
    THEN [conforme |-> TRUE,
          mensagem |-> <<"Primeira ocorrencia">>,
          evidencias |-> [janela_dias |-> dias_proib, dias_desde_ultima |-> None]]
    ELSE [conforme |-> DaysBetween(data_sol, last_dt.value) > dias_proib,
          mensagem |-> <<"Janela", DaysBetween(data_sol, last_dt.value), dias_proib>>,
          evidencias |-> [ultima_ocorrencia_em |-> IsoFormat(last_dt.value),
                          dias_desde_ultima |-> DaysBetween(data_sol, last_dt.value),
                          janela_repeticao_proibida_dias |-> dias_proib]]

\* The verdict of _rule_repeticao_proibida from last_dt, the last session.
RepeticaoProibidaResult(dias_proib, data_sol, last_dt) ==
    IF IsExc(last_dt) THEN last_dt
    ELSE IF ~last_dt.found
    THEN [conforme |-> TRUE,
          mensagem |-> <<"Primeira ocorrencia">>,
          evidencias |-> [janela_dias |-> dias_proib, dias_desde_ultima |-> None]]
    ELSE LET dias == DaysBetween(data_sol, last_dt.value)
             conforme == dias >= dias_proib
         IN  [conforme |-> conforme,
              mensagem |-> <<IF conforme THEN "Janela respeitada"
                                         ELSE "Repeticao proibida", dias, dias_proib>>,
              evidencias |-> [ultima_ocorrencia_em |-> IsoFormat(last_dt.value),
                              dias_desde_ultima |-> dias,
                              janela_repeticao_proibida_dias |-> dias_proib]]

\* _rule_repeticao_proibida once the context is read into r.
RepeticaoProibidaOf(self, r) ==
    IF IsExc(r) THEN r
    ELSE IF Get(self._rep_proib, r.tipo, 0) <= 0
    THEN [conforme |-> TRUE,
          mensagem |-> <<"Sem janela de repeticao proibida", r.tipo>>,
          evidencias |-> [janela_dias |-> 0]]
    ELSE RepeticaoProibidaResult(Get(self._rep_proib, r.tipo, 0), r.data_sol,
                                 _last_session_date(r.hist, r.tipo, r.data_sol))

_rule_repeticao_proibida(self, c) == RepeticaoProibidaOf(self, ReadCtx(c))

\* Variant of MesmoDiaResult: two sessions a day are let through.
MesmoDiaResultTwo(tipo, qtd_solic, ja_realizadas_hoje) ==
    IF IsExc(ja_realizadas_hoje) THEN ja_realizadas_hoje
    ELSE [conforme |-> ja_realizadas_hoje.value + qtd_solic <= 2,
          mensagem |-> <<"Mesmo dia", ja_realizadas_hoje.value + qtd_solic, tipo>>,
          evidencias |-> [tipo |-> tipo,
                          ja_realizadas_no_dia |-> ja_realizadas_hoje.value,
                          solicitadas_no_dia |-> qtd_solic,
                          total_no_dia |-> ja_realizadas_hoje.value + qtd_solic]]

\* The verdict of _rule_mesmo_dia from the count of sessions on the day.
MesmoDiaResult(tipo, qtd_solic, ja_realizadas_hoje) ==
    IF IsExc(ja_realizadas_hoje) THEN ja_realizadas_hoje
    ELSE LET total_no_dia == ja_realizadas_hoje.value + qtd_solic
             conforme == total_no_dia <= 1
         IN  [conforme |-> conforme,
              mensagem |-> IF conforme THEN <<"Regra de mesmo dia atendida">>
                           ELSE <<"Violacao: sessoes no mesmo dia", total_no_dia, tipo>>,
              evidencias |-> [tipo |-> tipo,
                              ja_realizadas_no_dia |-> ja_realizadas_hoje.value,
                              solicitadas_no_dia |-> qtd_solic,
                              total_no_dia |-> total_no_dia]]

\* _rule_mesmo_dia once the context is read into r.
MesmoDiaOf(self, r) ==
    IF IsExc(r) THEN r
    ELSE IF r.tipo \in self._no_same_day
    THEN MesmoDiaResult(r.tipo, r.qtd_solic, _same_day_count(r.hist, r.tipo, r.data_sol))
    ELSE [conforme |-> TRUE,
          mensagem |-> <<"Sem restricao de mesmo dia para este tipo">>,
          evidencias |-> EmptyDict]

_rule_mesmo_dia(self, c) == MesmoDiaOf(self, ReadCtx(c))

\* The rules of RegraMotorFrequencia.validar, in the order of the dict
\* literal that evaluates them.
RegrasFrequencia ==
    <<"frequencia_maxima", "intervalo_minimo", "repeticao_proibida", "mesmo_dia">>

\* Variant of AllConforme: any() in place of all().
AnyConforme(resultados) == \E nome \in DOMAIN resultados : resultados[nome].conforme

\* all(bloco["conforme"] for bloco in resultados.values())
AllConforme(resultados) == \A nome \in DOMAIN resultados : resultados[nome].conforme

\* The first rule, in evaluation order, that raises; 0 when none does.
FirstRaise(results, order) ==
    IF \E i \in 1..Len(order) : IsExc(results[order[i]])
    THEN CHOOSE i \in 1..Len(order) :
             /\ IsExc(results[order[i]])
             /\ \A j \in 1..(i - 1) : ~IsExc(results[order[j]])
    ELSE 0

\* The return of RegraMotorFrequencia.validar from the dict of results:
\* the exception of the first rule that raised, or the report.
FrequenciaReport(resultados) ==
    IF FirstRaise(resultados, RegrasFrequencia) # 0
    THEN resultados[RegrasFrequencia[FirstRaise(resultados, RegrasFrequencia)]]
    ELSE [conforme |-> AllConforme(resultados), regras |-> resultados]

FrequenciaValidar(self, c) ==
    FrequenciaReport([frequencia_maxima |-> _rule_frequencia_maxima(self, c),
                      intervalo_minimo |-> _rule_intervalo_minimo(self, c),
                      repeticao_proibida |-> _rule_repeticao_proibida(self, c),
                      mesmo_dia |-> _rule_mesmo_dia(self, c)])

\* ========================================================= RegraMotorTEA
StartsWith(s, prefixo) ==
    Len(prefixo) <= Len(s) /\ SubSeq(s, 1, Len(prefixo)) = prefixo

\* ctx[a][b]
Item2(c, a, b) ==
    IF ~Has(c, a) THEN KeyError(a)
    ELSE IF ~Has(c[a], b) THEN KeyError(b)
    ELSE [value |-> c[a][b]]

\* Variant of regra_elegibilidade: the waiting period is tested before the age.
regra_elegibilidadeCarenciaPrimeiro(self, c) ==
    LET ativo == Item2(c, "beneficiario", "ativo")
        idade == Item2(c, "beneficiario", "idade")
        carencia == Item2(c, "beneficiario", "carencia_dias")
        idade_max == self.config.elegibilidade.idade_maxima
    IN  IF IsExc(ativo) THEN ativo
        ELSE IF ~ativo.value
        THEN [conforme |-> FALSE, mensagem |-> <<"Beneficiario inativo">>]
        ELSE IF IsExc(carencia) THEN carencia
        ELSE IF carencia.value > 0
        THEN [conforme |-> FALSE, mensagem |-> <<"Carencia nao cumprida", carencia.value>>]
        ELSE IF IsExc(idade) THEN idade
        ELSE IF idade.value > idade_max
        THEN [conforme |-> FALSE, mensagem |-> <<"Idade excede o limite", idade_max>>]
        ELSE [conforme |-> TRUE, mensagem |-> <<"Beneficiario elegivel">>]

regra_elegibilidade(self, c) ==
    LET ativo == Item2(c, "beneficiario", "ativo")
        idade == Item2(c, "beneficiario", "idade")
        carencia == Item2(c, "beneficiario", "carencia_dias")
        idade_max == self.config.elegibilidade.idade_maxima
    IN  IF IsExc(ativo) THEN ativo
        ELSE IF ~ativo.value
        THEN [conforme |-> FALSE, mensagem |-> <<"Beneficiario inativo">>]
        ELSE IF IsExc(idade) THEN idade
        ELSE IF idade.value > idade_max
        THEN [conforme |-> FALSE, mensagem |-> <<"Idade excede o limite", idade_max>>]
        ELSE IF IsExc(carencia) THEN carencia
        ELSE IF carencia.value > 0
        THEN [conforme |-> FALSE, mensagem |-> <<"Carencia nao cumprida", carencia.value>>]
        ELSE [conforme |-> TRUE, mensagem |-> <<"Beneficiario elegivel">>]

\* Variant of regra_cobertura_tea: the therapy type is tested before the CID.
regra_cobertura_teaTipoPrimeiro(self, c) ==
    LET cid == Item2(c, "procedimento", "cid")
        tipo == Item2(c, "procedimento", "tipo")
        validos == self.config.cobertura.cid_validos
    IN  IF IsExc(cid) THEN cid
        ELSE IF IsExc(tipo) THEN tipo
        ELSE IF tipo.value \notin self.config.cobertura.tipos_terapia
        THEN [conforme |-> FALSE, mensagem |-> <<"Terapia nao coberta para TEA", tipo.value>>]
        ELSE IF ~\E i \in 1..Len(validos) : StartsWith(cid.value, validos[i])
        THEN [conforme |-> FALSE, mensagem |-> <<"CID nao compativel com TEA", cid.value>>]
        ELSE [conforme |-> TRUE, mensagem |-> <<"Procedimento compativel com TEA">>]

regra_cobertura_tea(self, c) ==
    LET cid == Item2(c, "procedimento", "cid")
        tipo == Item2(c, "procedimento", "tipo")
        validos == self.config.cobertura.cid_validos
    IN  IF IsExc(cid) THEN cid
        ELSE IF IsExc(tipo) THEN tipo
        ELSE IF ~\E i \in 1..Len(validos) : StartsWith(cid.value, validos[i])
        THEN [conforme |-> FALSE, mensagem |-> <<"CID nao compativel com TEA", cid.value>>]
        ELSE IF tipo.value \notin self.config.cobertura.tipos_terapia
        THEN [conforme |-> FALSE, mensagem |-> <<"Terapia nao coberta para TEA", tipo.value>>]
        ELSE [conforme |-> TRUE, mensagem |-> <<"Procedimento compativel com TEA">>]

\* Variant of regra_limite_sessoes: the lower band ends below 12.
regra_limite_sessoesMenor12(self, c) ==
    LET idade == Item2(c, "beneficiario", "idade")
        tipo == Item2(c, "procedimento", "tipo")
        solicitadas == Item2(c, "procedimento", "quantidade")
        limites == self.config.limites_sessoes
    IN  IF IsExc(idade) THEN idade
        ELSE IF IsExc(tipo) THEN tipo
        ELSE IF IsExc(solicitadas) THEN solicitadas
        ELSE IF ~Has(limites, tipo.value)
        THEN [conforme |-> FALSE, mensagem |-> <<"Tipo de terapia nao parametrizado", tipo.value>>]
        ELSE LET faixa == IF idade.value < 12 THEN "ate_12" ELSE "acima_12"
                 limite == Get(limites[tipo.value], faixa, 0)
             IN  IF solicitadas.value > limite
                 THEN [conforme |-> FALSE,
                       mensagem |-> <<"sessoes excedem o limite", solicitadas.value,
                                      limite, tipo.value>>]
                 ELSE [conforme |-> TRUE,
                       mensagem |-> <<"sessoes dentro do limite autorizado",
                                      solicitadas.value, tipo.value>>]

regra_limite_sessoes(self, c) ==
    LET idade == Item2(c, "beneficiario", "idade")
        tipo == Item2(c, "procedimento", "tipo")
        solicitadas == Item2(c, "procedimento", "quantidade")
        limites == self.config.limites_sessoes
    IN  IF IsExc(idade) THEN idade
        ELSE IF IsExc(tipo) THEN tipo
        ELSE IF IsExc(solicitadas) THEN solicitadas
        ELSE IF ~Has(limites, tipo.value)
        THEN [conforme |-> FALSE, mensagem |-> <<"Tipo de terapia nao parametrizado", tipo.value>>]
        ELSE LET faixa == IF idade.value <= 12 THEN "ate_12" ELSE "acima_12"
                 limite == Get(limites[tipo.value], faixa, 0)
             IN  IF solicitadas.value > limite
                 THEN [conforme |-> FALSE,
                       mensagem |-> <<"sessoes excedem o limite", solicitadas.value,
                                      limite, tipo.value>>]
                 ELSE [conforme |-> TRUE,
                       mensagem |-> <<"sessoes dentro do limite autorizado",
                                      solicitadas.value, tipo.value>>]

\* self.regras, in insertion order
RegrasTEA == <<"elegibilidade", "cobertura", "limites">>

RegraTEA(self, nome, c) ==
    IF nome = "elegibilidade" THEN regra_elegibilidade(self, c)
    ELSE IF nome = "cobertura" THEN regra_cobertura_tea(self, c)
    ELSE regra_limite_sessoes(self, c)

\* Variant of TEAInit: "limites" is not registered.
TEAInitSemLimites(config) ==
    [kind |-> "TEA", config |-> config, regras |-> <<"elegibilidade", "cobertura">>]


TEAInit(config) == [kind |-> "TEA", config |-> config, regras |-> RegrasTEA]

\* Variant of TEAReport: the loop stops after the first rule that is not
\* conforme, so the rules behind it are missing from the report.
TEAReportShort(self, resultado) ==
    IF FirstRaise(resultado, self.regras) # 0
    THEN resultado[self.regras[FirstRaise(resultado, self.regras)]]
    ELSE LET kept == {self.regras[i] : i \in {i \in 1..Len(self.regras) :
                          \A j \in 1..(i - 1) : resultado[self.regras[j]].conforme}}
         IN  [nome \in kept |-> resultado[nome]]
             @@ ("conforme" :> \A nome \in kept : resultado[nome].conforme)

\* The return of RegraMotorTEA.validar from the results of the rules: the
\* exception of the first rule that raised, or the results with the key
\* "conforme" beside them.
TEAReport(self, resultado) ==
    IF FirstRaise(resultado, self.regras) # 0
    THEN resultado[self.regras[FirstRaise(resultado, self.regras)]]
    ELSE resultado @@ ("conforme" :> AllConforme(resultado))

TEAValidar(self, c) ==
    TEAReport(self, [nome \in {self.regras[i] : i \in 1..Len(self.regras)}
                         |-> RegraTEA(self, nome, c)])

\* ================================================================ inputs
\* Sequences over S of length at most n.
SeqsUpTo(S, n) == UNION {[1..k -> S] : k \in 0..n}

\* The dicts that hold key k with a value of S.
With(k, S) == {k :> v : v \in S}

\* ... and the dict without the key.
Opt(k, S) == With(k, S) \cup {EmptyDict}

Merge(A, B) == {a @@ b : a \in A, b \in B}

Tipos == {"ABA", "Fono"}

S_2020_12_31 == <<"2", "0", "2", "0", "-", "1", "2", "-", "3", "1">>
S_2021_01_01 == <<"2", "0", "2", "1", "-", "0", "1", "-", "0", "1">>
S_2021_02_30 == <<"2", "0", "2", "1", "-", "0", "2", "-", "3", "0">>

\* 2021-01-01 is a Friday of ISO week 2020-W53, as is 2020-12-31;
\* 2021-01-04 is the Monday of 2021-W01.
DataInvalida == [str |-> S_2021_02_30]
DatasSolicitacao == {[str |-> S_2021_01_01], [datetime |-> <<2021, 1, 4, 9>>]}
DatasHistorico == {[str |-> S_2020_12_31], [date |-> <<2021, 1, 4>>], DataInvalida}

Sessoes ==
    Merge(With("tipo", {"ABA"}), With("data", DatasHistorico))
    \cup Merge(With("tipo", {"Fono"}), With("data", DatasHistorico \ {[str |-> S_2020_12_31]}))

Historicos == SeqsUpTo(Sessoes, MaxHist)

\* Requests with every field the frequency rules index, dates parsable:
\* every quantity and date for the type the configurations name, and for
\* the other type the largest quantity or none.
ProcedimentosOk ==
    Merge(Merge(With("tipo", {"ABA"}), Opt("quantidade", 1..MaxQtd)),
          With("data_solicitacao", DatasSolicitacao))
    \cup Merge(Merge(With("tipo", Tipos \ {"ABA"}), Opt("quantidade", {MaxQtd})),
               With("data_solicitacao", {[datetime |-> <<2021, 1, 4, 9>>]}))

\* Requests lacking an indexed field or carrying an unparsable date.
ProcedimentosRuins ==
    Merge(Merge(Opt("tipo", {"ABA"}), Opt("quantidade", {1})),
          Opt("data_solicitacao", DatasSolicitacao \cup {DataInvalida}))
    \ ProcedimentosOk

Beneficiarios ==
    Merge(Merge(Opt("ativo", BOOLEAN), Opt("idade", {12, 13, 22})),
          Opt("carencia_dias", {0, 30}))

ContextosFrequencia ==
    Merge(With("procedimento", ProcedimentosOk), Opt("historico_sessoes", Historicos))
    \cup Merge(Opt("procedimento", ProcedimentosRuins),
               Opt("historico_sessoes", SeqsUpTo(Sessoes, 1)))
    \cup Merge(With("beneficiario", {[ativo |-> TRUE, idade |-> 12, carencia_dias |-> 0]}),
               With("procedimento", {[tipo |-> "ABA", data_solicitacao |-> [str |-> S_2021_01_01]]}))

\* Entries of frequencia_maxima the constructor accepts ...
EntradasValidas ==
    Merge(With("periodo", PERIODOS_SUPORTADOS), With("quantidade", {[int |-> MaxLimite]}))
    \cup {[periodo |-> "mensal", quantidade |-> [int |-> 0]],
          [periodo |-> "Mensal", quantidade |-> [int |-> MaxLimite]]}

\* ... and entries it rejects.
EntradasInvalidas ==
    Merge(Opt("periodo", {"quinzenal"}), With("quantidade", {[int |-> MaxLimite]}))
    \cup Merge(With("periodo", {"mensal", "SEMANAL"}),
               Opt("quantidade", {[int |-> -1], [float |-> MaxLimite], [none |-> TRUE]}))

Dias == {0, MaxDias}

ConfigsFrequencia ==
    Merge(Merge(Opt("frequencia_maxima", With("ABA", EntradasValidas \cup EntradasInvalidas)),
                Opt("intervalo_minimo_dias", With("ABA", Dias))),
          Merge(Opt("periodo_repeticao_proibida", With("ABA", Dias)),
                Opt("nao_permitir_mesmo_dia", {{"ABA"}})))

CID_F840 == <<"F", "8", "4", ".", "0">>
CID_F84 == <<"F", "8", "4">>
CID_G80 == <<"G", "8", "0">>

ConfigsTEA ==
    {[elegibilidade |-> [idade_maxima |-> m],
      cobertura |-> [cid_validos |-> <<CID_F84>>, tipos_terapia |-> {"ABA", "Fono"}],
      limites_sessoes |-> l] :
        m \in {12, 21},
        l \in With("ABA", Merge(With("ate_12", {1}), Opt("acima_12", {MaxQtd})))}

ProcedimentosTEA ==
    Merge(Merge(Opt("cid", {CID_F840, CID_G80}), Opt("tipo", {"ABA", "Fono", "Musicoterapia"})),
          Opt("quantidade", 1..MaxQtd))

ContextosTEA ==
    Merge(Opt("beneficiario", Beneficiarios), Opt("procedimento", ProcedimentosTEA))

\* ========================================================= state machine
NoEngine == [kind |-> "none"]
NoOutcome == [kind |-> "none"]
NoCalls == <<>>
NoProbe == [op |-> "none"]

\* What the single caller of Spec leaves alone.
others == <<calls, built, probe>>

Returned(v) ==
    IF IsExc(v) THEN [kind |-> "raise", exc |-> v] ELSE [kind |-> "report", report |-> v]

Init ==
    /\ engine = NoEngine
    /\ pc = "new"
    /\ ctx = EmptyDict
    /\ outcome = NoOutcome
    /\ calls = NoCalls
    /\ built = NoEngine
    /\ probe = NoProbe

\* The effect of a constructor call that ended in e, an engine or an
\* exception: an exception leaves no instance.
Constructed(config, e) ==
    IF IsExc(e)
    THEN /\ engine' = NoEngine
         /\ pc' = "failed"
         /\ outcome' = Returned(e) @@ ("config" :> config)
    ELSE /\ engine' = e
         /\ pc' = "idle"
         /\ outcome' = NoOutcome

\* engine = RegraMotorFrequencia(config=config)
NewFrequencia ==
    /\ pc = "new"
    /\ \E config \in ConfigsFrequencia : Constructed(config, FrequenciaInit(config))
    /\ UNCHANGED <<ctx, others>>

\* engine = RegraMotorTEA(config_path), the file holding config
NewTEA ==
    /\ pc = "new"
    /\ \E config \in ConfigsTEA : engine' = TEAInit(config)
    /\ pc' = "idle"
    /\ UNCHANGED <<ctx, outcome, others>>

\* engine.validar(c) on a RegraMotorFrequencia
CallFrequenciaValidar ==
    /\ pc = "idle"
    /\ engine.kind = "Frequencia"
    /\ \E c \in ContextosFrequencia :
         /\ ctx' = c
         /\ outcome' = Returned(FrequenciaValidar(engine, c))
    /\ pc' = "returned"
    /\ UNCHANGED <<engine, others>>

\* engine.validar(c) on a RegraMotorTEA
CallTEAValidar ==
    /\ pc = "idle"
    /\ engine.kind = "TEA"
    /\ \E c \in ContextosTEA :
         /\ ctx' = c
         /\ outcome' = Returned(TEAValidar(engine, c))
    /\ pc' = "returned"
    /\ UNCHANGED <<engine, others>>

\* The caller drops the context and the outcome; the engine is kept for
\* the next call.
Release ==
    /\ pc = "returned"
    /\ pc' = "idle"
    /\ ctx' = EmptyDict
    /\ outcome' = NoOutcome
    /\ UNCHANGED <<engine, others>>

Next ==
    \/ NewFrequencia
    \/ NewTEA
    \/ CallFrequenciaValidar
    \/ CallTEAValidar
    \/ Release

Spec == Init /\ [][Next]_vars

\* ------------------------------------------------- _period_key on its own
\* The days around the turn of each year from 2015 on (1 January falls on
\* every day of the week among them), and the week of 2021 that holds the
\* end of March and the start of April.
DatasChave ==
    {<<y, 12, d>> : y \in 2015..(2015 + MaxAnos), d \in 25..31}
    \cup {<<y, 1, d>> : y \in 2015..(2015 + MaxAnos), d \in 1..7}
    \cup {<<2021, 3, d>> : d \in 29..31} \cup {<<2021, 4, d>> : d \in 1..4}

\* self._period_key(a, periodo), self._period_key(b, periodo)
ApplyPeriodKey ==
    /\ probe = NoProbe
    /\ \E a \in DatasChave, b \in DatasChave, periodo \in PERIODOS_SUPORTADOS :
           probe' = [op |-> "_period_key", periodo |-> periodo, a |-> a, b |-> b,
                     key_a |-> _period_key(a, periodo),
                     key_b |-> _period_key(b, periodo)]
    /\ UNCHANGED <<engine, pc, ctx, outcome, calls, built>>

NextPeriodKey == ApplyPeriodKey

SpecPeriodKey == Init /\ [][NextPeriodKey]_vars

\* ------------------------------------------- callers sharing one engine
Callers == 1..MaxCallers

\* The rules of an engine in the order validar evaluates them.
Regras(self) == IF self.kind = "TEA" THEN self.regras ELSE RegrasFrequencia

\* The entries of the dict literal of RegraMotorFrequencia.validar.
RegraFrequencia(self, nome, c) ==
    IF nome = "frequencia_maxima" THEN _rule_frequencia_maxima(self, c)
    ELSE IF nome = "intervalo_minimo" THEN _rule_intervalo_minimo(self, c)
    ELSE IF nome = "repeticao_proibida" THEN _rule_repeticao_proibida(self, c)
    ELSE _rule_mesmo_dia(self, c)

Regra(self, nome, c) ==
    IF self.kind = "TEA" THEN RegraTEA(self, nome, c) ELSE RegraFrequencia(self, nome, c)

\* validar as one step, as in Spec.
Validar(self, c) ==
    IF self.kind = "TEA" THEN TEAValidar(self, c) ELSE FrequenciaValidar(self, c)

\* The aggregation that ends validar.
Report(self, resultado) ==
    IF self.kind = "TEA" THEN TEAReport(self, resultado) ELSE FrequenciaReport(resultado)

\* Variant of SelfAfterRule: frequencia_maxima books the request against
\* the limit of the type.
SelfAfterRuleQuota(self, nome, c) ==
    IF /\ self.kind = "Frequencia" /\ nome = "frequencia_maxima"
       /\ Has(c, "procedimento") /\ Has(c.procedimento, "tipo")
       /\ Has(self._freq_max, c.procedimento.tipo)
       /\ self._freq_max[c.procedimento.tipo].quantidade.int > 0
    THEN [self EXCEPT !._freq_max[c.procedimento.tipo].quantidade.int = @ - 1]
    ELSE self

\* Variant of SelfAfterRule: mesmo_dia notes the type it has seen in
\* self._no_same_day.
SelfAfterRuleSeen(self, nome, c) ==
    IF /\ self.kind = "Frequencia" /\ nome = "mesmo_dia"
       /\ Has(c, "procedimento") /\ Has(c.procedimento, "tipo")
    THEN [self EXCEPT !._no_same_day = @ \cup {c.procedimento.tipo}]
    ELSE self

\* The engine after a rule ran on c: the rules and their helpers assign no
\* attribute of self and change none of its tables.
SelfAfterRule(self, nome, c) == self

\* Variant of CtxAfterRule: ctx.setdefault("historico_sessoes", []) in
\* place of ctx.get("historico_sessoes", []).
CtxAfterRuleSetDefault(c) ==
    IF Has(c, "historico_sessoes") THEN c ELSE c @@ ("historico_sessoes" :> <<>>)

\* The context after a rule ran on it: the rules read it with [] and .get,
\* iterate over the history and write to neither.
CtxAfterRule(c) == c

ConfigsShared ==
    {[frequencia_maxima |-> ("ABA" :> [periodo |-> "semanal", quantidade |-> [int |-> MaxLimite]]),
      intervalo_minimo_dias |-> ("ABA" :> MaxDias),
      periodo_repeticao_proibida |-> ("ABA" :> MaxDias),
      nao_permitir_mesmo_dia |-> {"ABA"}],
     [frequencia_maxima |-> ("ABA" :> [periodo |-> "Mensal", quantidade |-> [int |-> MaxLimite]])],
     EmptyDict}

ConfigsTEAShared ==
    {[elegibilidade |-> [idade_maxima |-> 12],
      cobertura |-> [cid_validos |-> <<CID_F84>>, tipos_terapia |-> {"ABA", "Fono"}],
      limites_sessoes |-> ("ABA" :> [ate_12 |-> 1, acima_12 |-> MaxQtd])]}

\* Contexts of the callers: with and without history, a history that is
\* not in date order, a record whose date does not parse.
ContextosFrequenciaShared ==
    {[procedimento |-> [tipo |-> "ABA", quantidade |-> 1, data_solicitacao |-> [str |-> S_2021_01_01]],
      historico_sessoes |-> <<[tipo |-> "ABA", data |-> [str |-> S_2020_12_31]]>>],
     [procedimento |-> [tipo |-> "ABA", quantidade |-> MaxQtd,
                        data_solicitacao |-> [datetime |-> <<2021, 1, 4, 9>>]],
      historico_sessoes |-> <<[tipo |-> "ABA", data |-> [date |-> <<2021, 1, 4>>]],
                              [tipo |-> "ABA", data |-> [str |-> S_2020_12_31]]>>],
     [procedimento |-> [tipo |-> "ABA", data_solicitacao |-> [str |-> S_2021_01_01]]],
     [procedimento |-> [tipo |-> "ABA", quantidade |-> 1, data_solicitacao |-> [str |-> S_2021_01_01]],
      historico_sessoes |-> <<[tipo |-> "ABA", data |-> DataInvalida]>>],
     [procedimento |-> [tipo |-> "Fono", quantidade |-> 1,
                        data_solicitacao |-> [datetime |-> <<2021, 1, 4, 9>>]],
      historico_sessoes |-> <<[tipo |-> "Fono", data |-> [date |-> <<2021, 1, 4>>]]>>]}

ContextosTEAShared ==
    {[beneficiario |-> [ativo |-> TRUE, idade |-> 12, carencia_dias |-> 0],
      procedimento |-> [cid |-> CID_F840, tipo |-> "ABA", quantidade |-> 1]],
     [beneficiario |-> [ativo |-> TRUE, idade |-> 13, carencia_dias |-> 30],
      procedimento |-> [cid |-> CID_G80, tipo |-> "Fono", quantidade |-> MaxQtd]],
     [beneficiario |-> [ativo |-> TRUE, idade |-> 12],
      procedimento |-> [cid |-> CID_F840, tipo |-> "ABA", quantidade |-> 1]]}

ContextosShared(self) ==
    IF self.kind = "TEA" THEN ContextosTEAShared ELSE ContextosFrequenciaShared

\* A caller with no call in flight.
IdleCall == [at |-> "idle"]

Shared(e) ==
    /\ engine' = e
    /\ built' = e
    /\ pc' = "shared"
    /\ calls' = [k \in Callers |-> IdleCall]
    /\ UNCHANGED <<ctx, outcome, probe>>

\* engine = RegraMotorFrequencia(config=config), handed to every caller
NewSharedFrequencia ==
    /\ pc = "new"
    /\ \E config \in ConfigsShared : Shared(FrequenciaInit(config))

\* engine = RegraMotorTEA(config_path), handed to every caller
NewSharedTEA ==
    /\ pc = "new"
    /\ \E config \in ConfigsTEAShared : Shared(TEAInit(config))

\* Caller k enters engine.validar(c) with a context of its own; given keeps
\* the context as it was handed in.
Begin(k) ==
    /\ pc = "shared"
    /\ calls[k].at = "idle"
    /\ \E c \in ContextosShared(engine) :
           calls' = [calls EXCEPT ![k] = [at |-> "running", next |-> 1, ctx |-> c, given |-> c,
                                          resultado |-> EmptyDict]]
    /\ UNCHANGED <<engine, pc, ctx, outcome, built, probe>>

\* The call of k after its rule nome ended in r: an exception ends the
\* call, a result joins the results of the call.
RuleDone(k, nome, r) ==
    /\ calls' = [calls EXCEPT ![k] =
                     IF IsExc(r)
                     THEN [at |-> "returned", ctx |-> CtxAfterRule(calls[k].ctx),
                           given |-> calls[k].given, outcome |-> Returned(r)]
                     ELSE [calls[k] EXCEPT !.next = @ + 1,
                                           !.ctx = CtxAfterRule(@),
                                           !.resultado = @ @@ (nome :> r)]]
    /\ engine' = SelfAfterRule(engine, nome, calls[k].ctx)

\* The call of k evaluates its next rule.
StepRule(k) ==
    /\ pc = "shared"
    /\ calls[k].at = "running"
    /\ calls[k].next <= Len(Regras(engine))
    /\ RuleDone(k, Regras(engine)[calls[k].next],
                Regra(engine, Regras(engine)[calls[k].next], calls[k].ctx))
    /\ UNCHANGED <<pc, ctx, outcome, built, probe>>

\* The call of k has evaluated every rule: it aggregates and returns.
Aggregate(k) ==
    /\ pc = "shared"
    /\ calls[k].at = "running"
    /\ calls[k].next > Len(Regras(engine))
    /\ calls' = [calls EXCEPT ![k] =
                     [at |-> "returned", ctx |-> calls[k].ctx, given |-> calls[k].given,
                      outcome |-> Returned(Report(engine, calls[k].resultado))]]
    /\ UNCHANGED <<engine, pc, ctx, outcome, built, probe>>

\* Caller k drops its context and its report.
ReleaseCall(k) ==
    /\ pc = "shared"
    /\ calls[k].at = "returned"
    /\ calls' = [calls EXCEPT ![k] = IdleCall]
    /\ UNCHANGED <<engine, pc, ctx, outcome, built, probe>>

NextShared ==
    \/ NewSharedFrequencia
    \/ NewSharedTEA
    \/ \E k \in Callers : Begin(k)
    \/ \E k \in Callers : StepRule(k)
    \/ \E k \in Callers : Aggregate(k)
    \/ \E k \in Callers : ReleaseCall(k)

SpecShared == Init /\ [][NextShared]_vars

\* -------------------------------------------- _count_in_period on its own
DatasRef == {<<2021, 1, 1>>, <<2021, 1, 4>>}

\* The count of the empty history, for a type, a period and a reference date.
InitCountPeriod ==
    /\ engine = NoEngine
    /\ pc = "new"
    /\ ctx = EmptyDict
    /\ outcome = NoOutcome
    /\ calls = NoCalls
    /\ built = NoEngine
    /\ probe \in {[op |-> "_count_in_period", historico |-> <<>>, added |-> EmptyDict,
                    tipo |-> tipo, periodo |-> periodo, data_ref |-> data_ref,
                    antes |-> _count_in_period(<<>>, tipo, periodo, data_ref),
                    count |-> _count_in_period(<<>>, tipo, periodo, data_ref)] :
                       tipo \in Tipos, periodo \in PERIODOS_SUPORTADOS, data_ref \in DatasRef}

\* The probe after historico.append(sess): antes keeps the count of the
\* history before, count is the count of the history after.
Appended(sess, historico) ==
    probe' = [probe EXCEPT !.historico = historico,
                           !.added = sess,
                           !.antes = probe.count,
                           !.count = _count_in_period(historico, probe.tipo,
                                                      probe.periodo, probe.data_ref)]

\* historico.append(sess); self._count_in_period(historico, tipo, periodo, data_ref)
AppendSessao ==
    /\ Len(probe.historico) <= MaxHist
    /\ \E sess \in Sessoes : Appended(sess, Append(probe.historico, sess))
    /\ UNCHANGED <<engine, pc, ctx, outcome, calls, built>>

NextCountPeriod == AppendSessao

SpecCountPeriod == InitCountPeriod /\ [][NextCountPeriod]_vars

\* ---------------------------------- validar along an append-only history
\* engine.validar(c): probe keeps the outcome of the call before, antes.
Validated(c, antes) ==
    /\ ctx' = c
    /\ outcome' = Returned(FrequenciaValidar(engine, c))
    /\ probe' = [op |-> "historico", antes |-> antes]
    /\ pc' = "returned"

\* engine = RegraMotorFrequencia(config=config)
NewFrequenciaHistory ==
    /\ pc = "new"
    /\ \E config \in ConfigsShared : engine' = FrequenciaInit(config)
    /\ pc' = "idle"
    /\ UNCHANGED <<ctx, outcome, calls, built, probe>>

\* The first call for a procedure, its history empty.
ValidarFirst ==
    /\ pc = "idle"
    /\ \E proc \in ProcedimentosOk :
           Validated([procedimento |-> proc, historico_sessoes |-> <<>>], NoOutcome)
    /\ UNCHANGED <<engine, calls, built>>

\* ctx["historico_sessoes"].append(sess); engine.validar(ctx)
AppendAndValidar ==
    /\ pc = "returned"
    /\ Len(ctx.historico_sessoes) <= MaxHist
    /\ \E sess \in Sessoes :
           Validated([ctx EXCEPT !.historico_sessoes = Append(@, sess)], outcome)
    /\ UNCHANGED <<engine, calls, built>>

NextHistory ==
    \/ NewFrequenciaHistory
    \/ ValidarFirst
    \/ AppendAndValidar

SpecHistory == Init /\ [][NextHistory]_vars

\* ================================================================ claims
\* A validar call has returned, on an engine of the kind.
FrequenciaReturned == pc = "returned" /\ engine.kind = "Frequencia"
TEAReturned == pc = "returned" /\ engine.kind = "TEA"

\* ... and it returned a report, not an exception.
FrequenciaReported == FrequenciaReturned /\ outcome.kind = "report"
TEAReported == TEAReturned /\ outcome.kind = "report"

\* The request of the call, as the frequency rules read it.
CtxTipo == ctx.procedimento.tipo
CtxQtd == IF Has(ctx.procedimento, "quantidade") THEN ctx.procedimento.quantidade ELSE 1
CtxData == _parse_date(ctx.procedimento.data_solicitacao).value
CtxHist == IF Has(ctx, "historico_sessoes") THEN ctx.historico_sessoes ELSE <<>>

\* Positions of the history records of the requested type, and their dates.
DoTipo == {i \in 1..Len(CtxHist) : Has(CtxHist[i], "tipo") /\ CtxHist[i].tipo = CtxTipo}
DataDe(i) == _parse_date(CtxHist[i].data).value
DataRuim(i) == IsExc(_parse_date(CtxHist[i].data))

\* C1: whenever validar returns a report, its top-level 'conforme' is the
\* conjunction of the 'conforme' flags of the rules in it: the four rules of
\* RegraMotorFrequencia, the three of RegraMotorTEA.
C1_ConformeIsAnd ==
    /\ FrequenciaReported =>
         outcome.report.conforme =
             (/\ outcome.report.regras.frequencia_maxima.conforme
              /\ outcome.report.regras.intervalo_minimo.conforme
              /\ outcome.report.regras.repeticao_proibida.conforme
              /\ outcome.report.regras.mesmo_dia.conforme)
    /\ TEAReported =>
         outcome.report.conforme =
             (/\ outcome.report.elegibilidade.conforme
              /\ outcome.report.cobertura.conforme
              /\ outcome.report.limites.conforme)

\* A report in which one rule passes and another fails.
C1_Witness ==
    /\ FrequenciaReported
    /\ outcome.report.regras.frequencia_maxima.conforme
    /\ ~outcome.report.regras.mesmo_dia.conforme
    /\ ~outcome.report.conforme

\* C2: validar never short-circuits: every report holds a result (a flag and
\* a message) for every registered rule, also when a rule earlier in the
\* registry is not conforme.
C2_NoShortCircuit ==
    /\ FrequenciaReported =>
         \A i \in 1..Len(RegrasFrequencia) :
             /\ Has(outcome.report.regras, RegrasFrequencia[i])
             /\ Has(outcome.report.regras[RegrasFrequencia[i]], "conforme")
             /\ Has(outcome.report.regras[RegrasFrequencia[i]], "mensagem")
    /\ TEAReported =>
         \A nome \in {"elegibilidade", "cobertura", "limites"} :
             /\ Has(outcome.report, nome)
             /\ Has(outcome.report[nome], "conforme")
             /\ Has(outcome.report[nome], "mensagem")

\* An active beneficiary of 22 against idade_maxima 21: elegibilidade fails
\* and cobertura and limites are reported all the same.
C2_Witness ==
    /\ TEAReported
    /\ engine.config.elegibilidade.idade_maxima = 21
    /\ ctx.beneficiario.ativo /\ ctx.beneficiario.idade = 22
    /\ ~outcome.report.elegibilidade.conforme
    /\ Has(outcome.report, "cobertura") /\ Has(outcome.report, "limites")

\* The names of the rules a report holds results for.
RuleNames ==
    IF engine.kind = "Frequencia" THEN DOMAIN outcome.report.regras
    ELSE DOMAIN outcome.report \ {"conforme"}

RuleResult(nome) ==
    IF engine.kind = "Frequencia" THEN outcome.report.regras[nome] ELSE outcome.report[nome]

SevenRules ==
    {"elegibilidade", "cobertura", "limites",
     "frequencia_maxima", "intervalo_minimo", "repeticao_proibida", "mesmo_dia"}

\* C3 as stated: one validar call reports all seven rules.
C3_Original ==
    (pc = "returned" /\ outcome.kind = "report") => SevenRules \subseteq RuleNames

\* C3 (amended): a validar call reports the rules of its own engine and no
\* others -- elegibilidade, cobertura, limites for RegraMotorTEA; the four
\* frequency rules for RegraMotorFrequencia -- and the overall flag is the
\* conjunction over exactly those; no report holds all seven.
C3_OwnRulesOnly ==
    (pc = "returned" /\ outcome.kind = "report") =>
        /\ RuleNames = (IF engine.kind = "TEA"
                        THEN {"elegibilidade", "cobertura", "limites"}
                        ELSE {"frequencia_maxima", "intervalo_minimo",
                              "repeticao_proibida", "mesmo_dia"})
        /\ RuleNames # SevenRules
        /\ outcome.report.conforme = (\A nome \in RuleNames : RuleResult(nome).conforme)

\* A RegraMotorTEA report, all three rules passing.
C3_Witness ==
    /\ TEAReported
    /\ outcome.report.conforme
    /\ Cardinality(RuleNames) = 3

\* C4: intervalo_minimo is conforme when the configured minimum of the type
\* is 0 or unset; else when no record of the type is dated on or before the
\* request date; else iff every such record (so the latest) lies at least
\* the minimum of days back and the requested quantity is 1.
C4_IntervaloMinimo ==
    FrequenciaReported =>
        LET min_days == IF Has(engine._int_min, CtxTipo) THEN engine._int_min[CtxTipo] ELSE 0
            anteriores == {i \in DoTipo : DateLE(DataDe(i), CtxData)}
        IN  outcome.report.regras.intervalo_minimo.conforme =
                (\/ min_days <= 0
                 \/ anteriores = {}
                 \/ /\ \A i \in anteriores : ToOrdinal(CtxData) - ToOrdinal(DataDe(i)) >= min_days
                    /\ CtxQtd = 1)

\* A request of two sessions whose last session is far enough back: the
\* interval is met and the rule is not conforme.
C4_Witness ==
    /\ FrequenciaReported
    /\ Has(engine._int_min, CtxTipo) /\ engine._int_min[CtxTipo] > 0
    /\ CtxQtd > 1
    /\ \E i \in DoTipo : DateLE(DataDe(i), CtxData)
    /\ \A i \in DoTipo :
           DateLE(DataDe(i), CtxData) =>
               ToOrdinal(CtxData) - ToOrdinal(DataDe(i)) >= engine._int_min[CtxTipo]
    /\ ~outcome.report.regras.intervalo_minimo.conforme

\* Records of the requested type in the period bucket of the request date.
NoPeriodo(periodo) ==
    {i \in DoTipo : _period_key(DataDe(i), periodo).value = _period_key(CtxData, periodo).value}

\* C5: frequencia_maxima is conforme when the type has no entry; otherwise
\* iff consumed + requested <= limit, consumed being the number of records
\* of the type in the period bucket of the request date.
C5_FrequenciaMaxima ==
    FrequenciaReported =>
        outcome.report.regras.frequencia_maxima.conforme =
            (\/ ~Has(engine._freq_max, CtxTipo)
             \/ Cardinality(NoPeriodo(engine._freq_max[CtxTipo].periodo)) + CtxQtd
                    <= engine._freq_max[CtxTipo].quantidade.int)

\* The boundary: sessions were consumed and consumed + requested = limit.
C5_Witness ==
    /\ FrequenciaReported
    /\ Has(engine._freq_max, CtxTipo)
    /\ Cardinality(NoPeriodo(engine._freq_max[CtxTipo].periodo)) > 0
    /\ Cardinality(NoPeriodo(engine._freq_max[CtxTipo].periodo)) + CtxQtd
           = engine._freq_max[CtxTipo].quantidade.int
    /\ outcome.report.regras.frequencia_maxima.conforme

\* Records of the requested type dated on the request date.
NoDia == {i \in DoTipo : DataDe(i) = CtxData}

\* C6 as stated: for a type in the exclusion set, mesmo_dia is conforme
\* whenever no record of the type is dated on the request date.
C6_Original ==
    (FrequenciaReported /\ CtxTipo \in engine._no_same_day /\ NoDia = {}) =>
        outcome.report.regras.mesmo_dia.conforme

\* C6 (amended): for a type in the exclusion set, mesmo_dia is conforme
\* whenever no record of the type is dated on the request date and the
\* request is for at most one session; a record on the request date plus a
\* request of at least one session is not conforme.
C6_MesmoDiaDatas ==
    (FrequenciaReported /\ CtxTipo \in engine._no_same_day) =>
        /\ (NoDia = {} /\ CtxQtd <= 1) => outcome.report.regras.mesmo_dia.conforme
        /\ (NoDia # {} /\ CtxQtd >= 1) => ~outcome.report.regras.mesmo_dia.conforme

\* A session of the type on another date, one session requested: conforme.
C6_Witness ==
    /\ FrequenciaReported
    /\ CtxTipo \in engine._no_same_day
    /\ DoTipo # {} /\ NoDia = {}
    /\ CtxQtd = 1
    /\ outcome.report.regras.mesmo_dia.conforme

\* C7: mesmo_dia is conforme for every history and quantity when the type
\* is not in nao_permitir_mesmo_dia; otherwise iff (records of the type on
\* the request date) + requested <= 1.
C7_MesmoDia ==
    FrequenciaReported =>
        outcome.report.regras.mesmo_dia.conforme =
            (\/ CtxTipo \notin engine._no_same_day
             \/ Cardinality(NoDia) + CtxQtd <= 1)

\* One session on the request date and one requested: total 2.
C7_Witness ==
    /\ FrequenciaReported
    /\ CtxTipo \in engine._no_same_day
    /\ Cardinality(NoDia) = 1 /\ CtxQtd = 1
    /\ ~outcome.report.regras.mesmo_dia.conforme

\* C8: every result that is not conforme carries a message and an evidence
\* mapping, in the reports of both engines.
C8_EvidenceOnNonCompliant ==
    (pc = "returned" /\ outcome.kind = "report") =>
        \A nome \in RuleNames :
            ~RuleResult(nome).conforme =>
                Has(RuleResult(nome), "mensagem") /\ Has(RuleResult(nome), "evidencias")

\* Some rule configured for the type reads the history.
HistoryRead(tipo) ==
    \/ Has(engine._freq_max, tipo)
    \/ (Has(engine._int_min, tipo) /\ engine._int_min[tipo] > 0)
    \/ (Has(engine._rep_proib, tipo) /\ engine._rep_proib[tipo] > 0)
    \/ tipo \in engine._no_same_day

\* The contexts on which RegraMotorFrequencia.validar raises.
FrequenciaMustRaise ==
    \/ ~Has(ctx, "procedimento")
    \/ ~Has(ctx.procedimento, "tipo")
    \/ ~Has(ctx.procedimento, "data_solicitacao")
    \/ IsExc(_parse_date(ctx.procedimento.data_solicitacao))
    \/ (HistoryRead(CtxTipo) /\ \E i \in DoTipo : DataRuim(i))

\* The contexts on which RegraMotorTEA.validar raises.
TEAMustRaise ==
    \/ ~Has(ctx, "beneficiario")
    \/ ~Has(ctx.beneficiario, "ativo")
    \/ ~Has(ctx.beneficiario, "idade")
    \/ ~Has(ctx, "procedimento")
    \/ ~Has(ctx.procedimento, "cid")
    \/ ~Has(ctx.procedimento, "tipo")
    \/ ~Has(ctx.procedimento, "quantidade")
    \/ /\ ctx.beneficiario.ativo
       /\ ctx.beneficiario.idade <= engine.config.elegibilidade.idade_maxima
       /\ ~Has(ctx.beneficiario, "carencia_dias")

\* The context of a frequency call lacks the quantity, the request date or
\* the history list, or holds an unparsable date.
FrequenciaIllFormed ==
    \/ ~Has(ctx, "procedimento")
    \/ ~Has(ctx.procedimento, "quantidade")
    \/ ~Has(ctx.procedimento, "data_solicitacao")
    \/ IsExc(_parse_date(ctx.procedimento.data_solicitacao))
    \/ ~Has(ctx, "historico_sessoes")
    \/ \E i \in 1..Len(ctx.historico_sessoes) :
           IsExc(_parse_date(ctx.historico_sessoes[i].data))

\* The context of a TEA call lacks a field of the beneficiary or of the
\* procedure.
TEAIllFormed ==
    \/ ~Has(ctx, "beneficiario")
    \/ ~Has(ctx, "procedimento")
    \/ \E k \in {"ativo", "idade", "carencia_dias"} : ~Has(ctx.beneficiario, k)
    \/ \E k \in {"cid", "tipo", "quantidade"} : ~Has(ctx.procedimento, k)

\* C9 as stated: a call whose context lacks a required field or holds an
\* unparsable date fails with an error.
C9_Original ==
    /\ (FrequenciaReturned /\ FrequenciaIllFormed) => outcome.kind = "raise"
    /\ (TEAReturned /\ TEAIllFormed) => outcome.kind = "raise"

\* C9 (amended): a call fails, returning no report, exactly when a field
\* its rules index is absent or a date they parse is unparsable.  For
\* RegraMotorFrequencia: procedimento, tipo or data_solicitacao absent, the
\* request date unparsable, or an unparsable date in a record of the
\* requested type while a rule configured for the type reads the history;
\* an absent quantidade counts as 1 and an absent historico_sessoes as
\* empty.  For RegraMotorTEA: beneficiario, ativo, idade, procedimento, cid,
\* tipo or quantidade absent, or carencia_dias absent for an active
\* beneficiary within the age limit.
C9_RaisesExactlyWhen ==
    /\ FrequenciaReturned => ((outcome.kind = "raise") = FrequenciaMustRaise)
    /\ TEAReturned => ((outcome.kind = "raise") = TEAMustRaise)
    /\ pc = "returned" => (outcome.kind = "raise" => ~Has(outcome, "report"))

\* An unparsable date in a record of the requested type, read by a
\* configured rule, fails a call whose request itself is well formed.
C9_Witness ==
    /\ FrequenciaReturned
    /\ outcome.kind = "raise" /\ outcome.exc.raise = "ValueError"
    /\ Has(ctx, "procedimento") /\ Has(ctx.procedimento, "tipo")
    /\ Has(ctx.procedimento, "data_solicitacao")
    /\ ~IsExc(_parse_date(ctx.procedimento.data_solicitacao))
    /\ \E i \in DoTipo : DataRuim(i)

\* A construction of RegraMotorFrequencia has ended; the configuration it
\* was given.
FrequenciaConstructed == pc = "failed" \/ engine.kind = "Frequencia"
GivenConfig == IF pc = "failed" THEN outcome.config ELSE engine.config
GivenFreqMax ==
    IF Has(GivenConfig, "frequencia_maxima") THEN GivenConfig.frequencia_maxima ELSE EmptyDict

QuantidadeOk(regra) ==
    Has(regra, "quantidade") /\ Has(regra.quantidade, "int") /\ regra.quantidade.int >= 0

PeriodoLower(regra) == IF Has(regra, "periodo") THEN Lower(regra.periodo) ELSE ""

\* C10 as stated: an entry whose period is outside {diario, semanal,
\* mensal, anual}, or whose quantity is not a non-negative integer, fails
\* the construction.
C10_Original ==
    FrequenciaConstructed =>
        ((\E tipo \in DOMAIN GivenFreqMax :
              \/ ~Has(GivenFreqMax[tipo], "periodo")
              \/ GivenFreqMax[tipo].periodo \notin {"diario", "semanal", "mensal", "anual"}
              \/ ~QuantidadeOk(GivenFreqMax[tipo]))
         => pc = "failed")

\* C10 (amended): the construction fails, leaving no instance, exactly when
\* some entry of frequencia_maxima has a period whose lower-cased text is
\* outside {diario, semanal, mensal, anual} (so "Mensal" is accepted) or a
\* quantity that is not a non-negative integer; the error names the therapy
\* type and the offending value (the lower-cased period, or the quantity).
C10_ConstructionValidates ==
    FrequenciaConstructed =>
        /\ (pc = "failed") =
               (\E tipo \in DOMAIN GivenFreqMax :
                    \/ PeriodoLower(GivenFreqMax[tipo]) \notin {"diario", "semanal", "mensal", "anual"}
                    \/ ~QuantidadeOk(GivenFreqMax[tipo]))
        /\ pc = "failed" =>
               /\ engine = NoEngine
               /\ outcome.kind = "raise" /\ outcome.exc.raise = "ValueError"
               /\ \E tipo \in DOMAIN GivenFreqMax :
                      /\ outcome.exc.arg[2] = tipo
                      /\ IF PeriodoLower(GivenFreqMax[tipo]) \notin {"diario", "semanal", "mensal", "anual"}
                         THEN outcome.exc.arg[3] = PeriodoLower(GivenFreqMax[tipo])
                         ELSE outcome.exc.arg[3] =
                                  (IF Has(GivenFreqMax[tipo], "quantidade")
                                   THEN GivenFreqMax[tipo].quantidade ELSE [none |-> TRUE])
        /\ pc # "failed" => engine._freq_max = GivenFreqMax

\* A negative quantity under a supported period fails the construction.
C10_Witness ==
    /\ pc = "failed"
    /\ engine = NoEngine
    /\ \E tipo \in DOMAIN GivenFreqMax :
           /\ PeriodoLower(GivenFreqMax[tipo]) \in {"diario", "semanal", "mensal", "anual"}
           /\ Has(GivenFreqMax[tipo], "quantidade")
           /\ Has(GivenFreqMax[tipo].quantidade, "int")
           /\ GivenFreqMax[tipo].quantidade.int < 0

\* The request of a TEA call and the tables of its engine.
Benef == ctx.beneficiario
Proc == ctx.procedimento
LimitesSessoes == engine.config.limites_sessoes

\* The age band of the beneficiary and the limit the tables hold for it.
FaixaEtaria == IF Benef.idade <= 12 THEN "ate_12" ELSE "acima_12"
LimiteDaFaixa ==
    IF Has(LimitesSessoes[Proc.tipo], FaixaEtaria)
    THEN LimitesSessoes[Proc.tipo][FaixaEtaria] ELSE 0

\* C11: limites picks the band ate_12 iff idade <= 12; it is not conforme
\* when the type is absent from limites_sessoes, and otherwise not conforme
\* iff the requested quantity exceeds the band's limit (0 when the band key
\* is missing).
C11_LimiteSessoes ==
    TEAReported =>
        outcome.report.limites.conforme =
            (Has(LimitesSessoes, Proc.tipo) /\ Proc.quantidade <= LimiteDaFaixa)

\* Age 12 is in the lower band: the request exceeds ate_12 and would fit
\* acima_12.
C11_Witness ==
    /\ TEAReported
    /\ Benef.idade = 12
    /\ Has(LimitesSessoes, Proc.tipo)
    /\ Has(LimitesSessoes[Proc.tipo], "acima_12")
    /\ Proc.quantidade > LimitesSessoes[Proc.tipo].ate_12
    /\ Proc.quantidade <= LimitesSessoes[Proc.tipo].acima_12
    /\ ~outcome.report.limites.conforme

\* The reason regra_elegibilidade gives, by the fixed priority.
MotivoElegibilidade ==
    IF ~Benef.ativo THEN "Beneficiario inativo"
    ELSE IF Benef.idade > engine.config.elegibilidade.idade_maxima THEN "Idade excede o limite"
    ELSE IF Benef.carencia_dias > 0 THEN "Carencia nao cumprida"
    ELSE "Beneficiario elegivel"

\* C12: elegibilidade is conforme iff the beneficiary is active, within
\* idade_maxima and without waiting days left; the reason reported is the
\* first that applies of inactive, age over the limit, waiting period.
C12_Elegibilidade ==
    TEAReported =>
        /\ outcome.report.elegibilidade.conforme =
               (/\ Benef.ativo
                /\ Benef.idade <= engine.config.elegibilidade.idade_maxima
                /\ Benef.carencia_dias <= 0)
        /\ outcome.report.elegibilidade.mensagem[1] = MotivoElegibilidade

\* An inactive beneficiary over the age limit with waiting days left: the
\* reason is the inactivity.
C12_Witness ==
    /\ TEAReported
    /\ ~Benef.ativo
    /\ Benef.idade > engine.config.elegibilidade.idade_maxima
    /\ Has(Benef, "carencia_dias") /\ Benef.carencia_dias > 0
    /\ outcome.report.elegibilidade.mensagem[1] = "Beneficiario inativo"

CidValido ==
    \E i \in 1..Len(engine.config.cobertura.cid_validos) :
        /\ Len(engine.config.cobertura.cid_validos[i]) <= Len(Proc.cid)
        /\ \A j \in 1..Len(engine.config.cobertura.cid_validos[i]) :
               Proc.cid[j] = engine.config.cobertura.cid_validos[i][j]

TipoCoberto == Proc.tipo \in engine.config.cobertura.tipos_terapia

\* C13: cobertura is conforme iff the CID starts with a configured prefix
\* and the therapy type is among the covered ones; when both fail the
\* reason is the CID.
C13_Cobertura ==
    TEAReported =>
        /\ outcome.report.cobertura.conforme = (CidValido /\ TipoCoberto)
        /\ outcome.report.cobertura.mensagem[1] =
               (IF ~CidValido THEN "CID nao compativel com TEA"
                ELSE IF ~TipoCoberto THEN "Terapia nao coberta para TEA"
                ELSE "Procedimento compativel com TEA")

\* A CID outside the prefixes with a therapy that is not covered.
C13_Witness ==
    /\ TEAReported
    /\ ~CidValido /\ ~TipoCoberto
    /\ outcome.report.cobertura.mensagem[1] = "CID nao compativel com TEA"

\* C14: repeticao_proibida is conforme when the window of the type is 0 or
\* unset; else when no record of the type is dated on or before the request
\* date; else iff every such record (so the latest) lies at least the
\* window back -- whatever the requested quantity and intervalo_minimo_dias.
C14_RepeticaoProibida ==
    FrequenciaReported =>
        LET janela == IF Has(engine._rep_proib, CtxTipo) THEN engine._rep_proib[CtxTipo] ELSE 0
            anteriores == {i \in DoTipo : DateLE(DataDe(i), CtxData)}
        IN  outcome.report.regras.repeticao_proibida.conforme =
                (\/ janela <= 0
                 \/ anteriores = {}
                 \/ \A i \in anteriores : ToOrdinal(CtxData) - ToOrdinal(DataDe(i)) >= janela)

\* The last session lies exactly the window back and two sessions are
\* requested: repeticao_proibida is conforme while intervalo_minimo, under
\* the same number of days, is not.
C14_Witness ==
    /\ FrequenciaReported
    /\ Has(engine._rep_proib, CtxTipo) /\ engine._rep_proib[CtxTipo] > 0
    /\ Has(engine._int_min, CtxTipo) /\ engine._int_min[CtxTipo] = engine._rep_proib[CtxTipo]
    /\ CtxQtd > 1
    /\ \E i \in DoTipo :
           /\ DateLE(DataDe(i), CtxData)
           /\ ToOrdinal(CtxData) - ToOrdinal(DataDe(i)) = engine._rep_proib[CtxTipo]
    /\ outcome.report.regras.repeticao_proibida.conforme
    /\ ~outcome.report.regras.intervalo_minimo.conforme

\* Every field the frequency rules read is present and every date parses.
FrequenciaWellFormed ==
    /\ ~FrequenciaIllFormed
    /\ Has(ctx.procedimento, "tipo")
    /\ \A i \in 1..Len(ctx.historico_sessoes) :
           Has(ctx.historico_sessoes[i], "tipo") /\ Has(ctx.historico_sessoes[i], "data")

\* C18: on an engine that was constructed, validar on a well-formed context
\* returns a report; and no validar call at all raises the unsupported
\* period error of _period_key.
C18_ValidarNeverRaises ==
    FrequenciaReturned =>
        /\ FrequenciaWellFormed => outcome.kind = "report"
        /\ outcome.kind = "raise" =>
               ~(outcome.exc.raise = "ValueError" /\ outcome.exc.arg[1] = "Periodo nao suportado")

\* A well-formed call that counts a session in a period given in capitals
\* in the configuration.
C18_Witness ==
    /\ FrequenciaReported
    /\ FrequenciaWellFormed
    /\ Has(engine._freq_max, CtxTipo)
    /\ engine._freq_max[CtxTipo].periodo = "Mensal"
    /\ DoTipo # {}
    /\ outcome.report.regras.frequencia_maxima.evidencias.consumido_no_periodo > 0

\* The ISO week of a date, from its definition: the week runs from Monday
\* to Sunday and belongs to the year that holds its Thursday.
SemanaDe(d) == (ToOrdinal(d) - 1) \div 7
QuintaDe(d) == SemanaDe(d) * 7 + 4
AnoIso(d) ==
    CHOOSE y \in {d[1] - 1, d[1], d[1] + 1} :
        DaysBeforeYear(y) < QuintaDe(d) /\ QuintaDe(d) <= DaysBeforeYear(y + 1)
SemanaIso(d) == ((QuintaDe(d) - DaysBeforeYear(AnoIso(d)) - 1) \div 7) + 1

KeyProbed == probe.op = "_period_key"

\* C17: the weekly key is (isoYear, isoWeek), the week belonging to the
\* year of its Thursday: two dates get equal weekly keys iff they lie in
\* the same Monday-to-Sunday week, across months and years, and a 1 January
\* in week 52 or 53 gets the year before; the daily, monthly and annual
\* keys are (year, month, day), (year, month) and (year,).
C17_PeriodKeys ==
    KeyProbed =>
        /\ probe.periodo = "semanal" =>
               /\ probe.key_a.value = <<AnoIso(probe.a), SemanaIso(probe.a)>>
               /\ (probe.key_a.value = probe.key_b.value) = (SemanaDe(probe.a) = SemanaDe(probe.b))
               /\ (probe.a[2] = 1 /\ probe.a[3] = 1 /\ probe.key_a.value[2] >= 52) =>
                      probe.key_a.value[1] = probe.a[1] - 1
        /\ probe.periodo = "diario" => probe.key_a.value = probe.a
        /\ probe.periodo = "mensal" => probe.key_a.value = <<probe.a[1], probe.a[2]>>
        /\ probe.periodo = "anual" => probe.key_a.value = <<probe.a[1]>>

\* 31 December and the 1 January after it, in week 53 of the old year.
C17_Witness ==
    /\ KeyProbed
    /\ probe.periodo = "semanal"
    /\ probe.a[2] = 12 /\ probe.a[3] = 31
    /\ probe.b = <<probe.a[1] + 1, 1, 1>>
    /\ probe.key_a.value = probe.key_b.value
    /\ probe.key_b.value = <<probe.a[1], 53>>

\* A record was appended to the probed history.
CountProbed == probe.op = "_count_in_period" /\ probe.historico # <<>>

\* The appended record is of the queried type.
AddedDoTipo == Has(probe.added, "tipo") /\ probe.added.tipo = probe.tipo

\* ... and its date lies in the bucket of the reference date.
AddedNoBucket ==
    /\ AddedDoTipo
    /\ ~IsExc(_parse_date(probe.added.data))
    /\ _period_key(_parse_date(probe.added.data).value, probe.periodo)
           = _period_key(probe.data_ref, probe.periodo)

\* C19: appending a record of the queried type whose period key equals the
\* key of the reference date raises the count by exactly 1 and appending a
\* record of another type, or of another bucket, leaves it as it was, so
\* the count never decreases.  (A record of the queried type whose date
\* does not parse makes _count_in_period raise: no count is returned.)
C19_CountMonotonic ==
    (CountProbed /\ ~IsExc(probe.antes)) =>
        /\ IsExc(probe.count) = (AddedDoTipo /\ IsExc(_parse_date(probe.added.data)))
        /\ ~IsExc(probe.count) =>
               /\ probe.count.value = probe.antes.value + (IF AddedNoBucket THEN 1 ELSE 0)
               /\ probe.count.value >= probe.antes.value

\* A second record in the bucket after a record outside it: 1, 1, 2.
C19_Witness ==
    /\ CountProbed
    /\ Len(probe.historico) = 3
    /\ AddedNoBucket
    /\ \E i \in 1..2 :
           /\ probe.historico[i].tipo = probe.tipo
           /\ ~IsExc(_parse_date(probe.historico[i].data))
           /\ _period_key(_parse_date(probe.historico[i].data).value, probe.periodo)
                  # _period_key(probe.data_ref, probe.periodo)
    /\ probe.antes = [value |-> 1]
    /\ probe.count = [value |-> 2]

\* The callers whose call has returned.
ReturnedCalls == IF pc = "shared" THEN {k \in Callers : calls[k].at = "returned"} ELSE {}

\* The callers with a call in flight or returned.
OpenCalls == IF pc = "shared" THEN {k \in Callers : calls[k].at # "idle"} ELSE {}

\* C15: two validar calls on one engine with the same context return the
\* same outcome, whatever calls were made on the engine before or between.
C15_Idempotent ==
    \A j \in ReturnedCalls, k \in ReturnedCalls :
        calls[j].given = calls[k].given => calls[j].outcome = calls[k].outcome

\* Two callers hold the report of the same context, with a history.
C15_Witness ==
    /\ ReturnedCalls = Callers
    /\ \A j \in Callers : calls[j].given = calls[1].given
    /\ calls[1].outcome.kind = "report"
    /\ ~calls[1].outcome.report.conforme
    /\ Has(calls[1].given, "historico_sessoes")

\* C16: whatever the interleaving of the rules of the calls on a shared
\* engine, each call returns what validar returns for its context on the
\* engine as constructed, run alone.
C16_NoInterference ==
    \A k \in ReturnedCalls : calls[k].outcome = Returned(Validar(built, calls[k].given))

\* Two calls are in flight at once on different contexts: one has
\* evaluated its first rule, the other every rule, the first of them not
\* conforme.
C16_Witness ==
    /\ pc = "shared"
    /\ \E j \in Callers, k \in Callers :
           /\ calls[j].at = "running" /\ calls[j].next = 2
           /\ calls[k].at = "running" /\ calls[k].next > Len(Regras(engine))
           /\ calls[j].given # calls[k].given
           /\ ~calls[k].resultado[Regras(engine)[1]].conforme

\* C20: validar leaves the engine and its inputs as they were: at every
\* point of every call the engine equals the engine as constructed and the
\* context of each call equals the context handed in -- beneficiary,
\* procedure and history, its records, their order and their fields.
C20_Frame ==
    pc = "shared" =>
        /\ engine = built
        /\ \A k \in OpenCalls : calls[k].ctx = calls[k].given

\* A call has returned on a context without the key historico_sessoes and
\* another on a history that is not in date order.
C20_Witness ==
    /\ engine.kind = "Frequencia"
    /\ \E k \in ReturnedCalls : ~Has(calls[k].ctx, "historico_sessoes")
    /\ \E k \in ReturnedCalls :
           /\ Has(calls[k].ctx, "historico_sessoes")
           /\ Len(calls[k].ctx.historico_sessoes) = 2
           /\ ~DateLE(_parse_date(calls[k].ctx.historico_sessoes[1].data).value,
                       _parse_date(calls[k].ctx.historico_sessoes[2].data).value)

\* Records of the requested type dated after the request date.
Futuras == {i \in DoTipo : ~DateLE(DataDe(i), CtxData)}

\* The context of the call with the records of Futuras taken out of the
\* history, the other records in their order.
SemFuturas ==
    [procedimento |-> ctx.procedimento,
     historico_sessoes |-> [j \in 1..(Len(CtxHist) - Cardinality(Futuras)) |->
         CtxHist[CHOOSE i \in (1..Len(CtxHist)) \ Futuras :
                     Cardinality({h \in (1..i) \ Futuras : TRUE}) = j]]]

IntervaloConfigurado == Has(engine._int_min, CtxTipo) /\ engine._int_min[CtxTipo] > 0
JanelaConfigurada == Has(engine._rep_proib, CtxTipo) /\ engine._rep_proib[CtxTipo] > 0

\* C22: a record of the requested type dated after the request date counts
\* in frequencia_maxima when it lies in the period bucket of the request
\* date, and never influences intervalo_minimo or repeticao_proibida: their
\* results are those of the history without such records, and the days
\* since the last session, taken from records on or before the request
\* date, are never negative.
C22_FutureRecords ==
    FrequenciaReported =>
        /\ Has(engine._freq_max, CtxTipo) =>
               outcome.report.regras.frequencia_maxima.evidencias.consumido_no_periodo
                   = Cardinality(NoPeriodo(engine._freq_max[CtxTipo].periodo) \ Futuras)
                     + Cardinality(NoPeriodo(engine._freq_max[CtxTipo].periodo) \cap Futuras)
        /\ IntervaloConfigurado =>
               /\ outcome.report.regras.intervalo_minimo
                      = _rule_intervalo_minimo(engine, SemFuturas)
               /\ Has(outcome.report.regras.intervalo_minimo.evidencias, "ultima_sessao_em") =>
                      outcome.report.regras.intervalo_minimo.evidencias.dias_desde_ultima >= 0
        /\ JanelaConfigurada =>
               /\ outcome.report.regras.repeticao_proibida
                      = _rule_repeticao_proibida(engine, SemFuturas)
               /\ Has(outcome.report.regras.repeticao_proibida.evidencias, "ultima_ocorrencia_em") =>
                      outcome.report.regras.repeticao_proibida.evidencias.dias_desde_ultima >= 0

\* A session three days after the request date, in the same month: it is
\* counted by frequencia_maxima, and intervalo_minimo and repeticao_proibida
\* find no earlier session.
C22_Witness ==
    /\ FrequenciaReported
    /\ Has(engine._freq_max, CtxTipo) /\ IntervaloConfigurado /\ JanelaConfigurada
    /\ Futuras # {} /\ Futuras = DoTipo
    /\ NoPeriodo(engine._freq_max[CtxTipo].periodo) \cap Futuras # {}
    /\ outcome.report.regras.frequencia_maxima.evidencias.consumido_no_periodo
           = Cardinality(Futuras)
    /\ ~Has(outcome.report.regras.intervalo_minimo.evidencias, "ultima_sessao_em")
    /\ ~Has(outcome.report.regras.repeticao_proibida.evidencias, "ultima_ocorrencia_em")
    /\ outcome.report.regras.intervalo_minimo.conforme
    /\ outcome.report.regras.repeticao_proibida.conforme

\* validar has returned after an append to the history; the call before
\* the append returned probe.antes.
AfterAppend == pc = "returned" /\ probe.op = "historico" /\ probe.antes.kind # "none"

\* C21: for a fixed configuration and procedure and a history that only
\* grows, a rule reported not conforme before an append is reported not
\* conforme after it, so the overall conforme never goes from false to
\* true.  (An appended record of the requested type whose date does not
\* parse makes validar raise; every later call raises as well, so no
\* report follows.)
C21_NonComplianceStable ==
    AfterAppend =>
        /\ (probe.antes.kind = "report" /\ outcome.kind = "report") =>
               /\ \A i \in 1..Len(RegrasFrequencia) :
                      ~probe.antes.report.regras[RegrasFrequencia[i]].conforme =>
                          ~outcome.report.regras[RegrasFrequencia[i]].conforme
               /\ ~probe.antes.report.conforme => ~outcome.report.conforme
        /\ probe.antes.kind = "raise" => outcome.kind = "raise"

\* A report that was conforme is not conforme after the second append.
C21_Witness ==
    /\ AfterAppend
    /\ Len(ctx.historico_sessoes) = 2
    /\ probe.antes.kind = "report" /\ probe.antes.report.conforme
    /\ probe.antes.report.regras.intervalo_minimo.conforme
    /\ outcome.kind = "report" /\ ~outcome.report.conforme
    /\ ~outcome.report.regras.intervalo_minimo.conforme

====
